---- MODULE Spec2Model ----
(***************************************************************************)
(* Bookstore ordering system: Service Commandes (orders, port 3002)        *)
(* orchestrating Service Utilisateurs (accounts, port 3003) and Service    *)
(* Livres (catalog, port 3001) over HTTP.                                  *)
(*                                                                         *)
(* Each service owns its store.  A request to the order service is a       *)
(* process with a position (pc); every await of the handler is a point     *)
(* where other requests and the peer services may run.  A peer lookup is   *)
(* answered in one step: the peer reads its store at that instant, or the  *)
(* call fails: no response, a 5xx, or a 2xx whose body is not the row (a    *)
(* JSON object without the display field, or JSON null).  The local store  *)
(* of each service answers every operation except under SpecDb and         *)
(* SpecPosts, which have the steps in which a store rejects the call of a  *)
(* handler.  Timestamps (dateCommande, createdAt, updatedAt) are not       *)
(* modelled.                                                               *)
(*                                                                         *)
(* Spec is the order service with the writes of its peers that it can      *)
(* observe (a registration, a book created, a book deleted).  SpecAccount  *)
(* and SpecCatalog are the account service and the catalog alone, with     *)
(* every request their clients can send; a request to the account service  *)
(* is a process like one to the order service, and the catalog serves one  *)
(* request at a time.  SpecTwoReads and SpecListOfMany are the order       *)
(* service read after the writes have stopped; SpecLive is Spec with the   *)
(* progress the order service makes by itself.  SpecServices is the three  *)
(* services together with every route of each, one order-service request   *)
(* in flight at a time; SpecPosts is POST /commandes alone over every      *)
(* answer of its peers and of its store; SpecDb is the writes of the three *)
(* services with every store call of every handler able to fail.           *)
(***************************************************************************)
EXTENDS Integers, Sequences, FiniteSets, TLC

VARIABLES
  users,     \* Account store: users[i] is the row with id i (rows are never deleted)
  books,     \* Catalog store: the set of rows [id, title, author, year]
  bookSeq,   \* Catalog store: last id handed out by AUTOINCREMENT
  orders,    \* Order store: orders[i] is the row with id i (rows are never deleted)
  req,       \* Order service: the state of each request
  acct,      \* Account service: the state of each request
  cat        \* Catalog service: the last request served and its answer

vars == <<users, books, bookSeq, orders, req, acct, cat>>

---------------------------------------------------------------------------
(* Bounds *)

MaxUsers == 1
MaxBooks == 1
MaxOrders == 1

\* the display fields clients submit: the k-th user registers under the k-th
\* name and the k-th book is created with the k-th title, so that rows are told
\* apart by their display fields
Names == <<"Alice", "Bob", "Carol", "Dave">>
Titles == <<"Gatsby", "Dune", "Emma", "Ulysses">>
Emails == <<"alice@x.io", "bob@x.io", "carol@x.io", "dave@x.io">>
Authors == <<"Fitzgerald", "Herbert", "Austen", "Joyce">>
Years == <<1925, 1965, 1815, 1922>>
\* the body a client posts for the k-th book
BookBody(k) == [title |-> Titles[k], author |-> Authors[k], year |-> <<Years[k]>>]

\* what clients of the catalog post: the whole body, the body without year, and
\* a body without title or without author
BookInputs ==
  UNION {{BookBody(k),
          [title |-> Titles[k], author |-> Authors[k]],
          [author |-> Authors[k], year |-> <<Years[k]>>],
          [title |-> Titles[k], author |-> ""]} : k \in 1..MaxBooks}
\* what clients of the catalog put: one field, several, null for year, or nothing
UpdateInputs ==
  {[title |-> "Persuasion"], [author |-> "Anonyme"], [year |-> <<1817>>],
   [year |-> <<>>], [title |-> "Persuasion", author |-> "Anonyme", year |-> <<1817>>],
   [title |-> ""]}

\* request slots of the account service: two requests can be in flight together
AcctReqs == {1, 2}
\* what clients post to /register: two accounts under either password, a text
\* that is no email address, and bodies with one field left out
NotEmails == {"alice.x.io"}
Passwords == {"pw1", "pw2"}
RegisterInputs ==
  {[email |-> Emails[k], password |-> p, name |-> Names[k]] : k \in 1..2, p \in Passwords}
    \cup {[email |-> e, password |-> "pw1", name |-> Names[1]] : e \in NotEmails}
    \cup {[password |-> "pw1", name |-> Names[1]],
          [email |-> Emails[1], name |-> Names[1]],
          [email |-> Emails[1], password |-> "pw1"]}
\* what clients post to /login
LoginInputs ==
  {[email |-> Emails[k], password |-> p] : k \in 1..2, p \in Passwords}
    \cup {[password |-> "pw1"], [email |-> Emails[1]]}
\* the salts bcrypt draws
Salts == {"s1", "s2"}

\* request slots of the order service: one that takes creations, two kept
\* for reads; under Spec one creation and one read can be in flight together
Writers == {1}
Readers == {2, 3}
OneReader == {2}
Reqs == Writers \cup Readers
\* the :id path parameters tried, as character sequences
IdParams == {<<"1">>, <<"2">>, <<"x">>, <<"1", "x">>}
UserIds == 0..MaxUsers      \* 0 stands for an absent (falsy) userId
BookIds == 0..MaxBooks      \* 0 stands for an absent (falsy) bookId

---------------------------------------------------------------------------
(* Values *)

NULL == [null |-> TRUE]
PENDING == [pending |-> TRUE]
UNDEFINED == "<undefined>"

UNKNOWN_USER == "Utilisateur inconnu"
UNKNOWN_BOOK == "Livre inconnu"
EN_COURS == "En cours"

\* the texts sent with the answers of POST /commandes
MSG_REQUIRED == "userId et bookId sont requis"
MSG_USER_NOT_FOUND == "Utilisateur non trouve"
MSG_USER_CHECK == "Erreur lors de la verification de l'utilisateur"
MSG_BOOK_NOT_FOUND == "Livre non trouve"
MSG_BOOK_CHECK == "Erreur lors de la verification du livre"
MSG_DB == "Erreur base de donnees lors de la creation de la commande"

\* the texts sent with the answers of the account service
MSG_REGISTER_REQUIRED == "Email, mot de passe et nom sont requis"
MSG_EMAIL_TAKEN == "Cet email est deja utilise"
MSG_LOGIN_REQUIRED == "Email et mot de passe sont requis"
MSG_INVALID_LOGIN == "Email ou mot de passe invalide"

\* `!x` of JavaScript on an identifier of the request body
Falsy(x) == x = 0

\* a text of a request body; a key that is missing reads as undefined, which
\* `!x` treats like the empty text
Text(body, key) == IF key \in DOMAIN body THEN body[key] ELSE ""
Blank(s) == s = ""

HttpReply(status, data) == [hasResponse |-> TRUE, status |-> status, data |-> data]
NoResponse == [hasResponse |-> FALSE, status |-> 0, data |-> NULL]

\* axios.get resolves on a 2xx answer and rejects otherwise
AxiosResolves(resp) == resp.hasResponse /\ resp.status >= 200 /\ resp.status < 300

\* error.response && error.response.status === 404
IsNotFound(resp) == resp.hasResponse /\ resp.status = 404

\* the handler's catch block has run for a rejected call to the local store:
\* the request's record notes it
StoreFailed(rq) == [rq EXCEPT !.failed = TRUE]

---------------------------------------------------------------------------
(* Account service *)

\* bcrypt.hash(password, saltRounds): the digest embeds the cost and the salt drawn
Hash(password, salt) == "$2b$10$" \o salt \o "$" \o password

\* BcryptCompare that compares the password with the stored text itself
BcryptCompare_PlainText(password, digest) == password = digest

\* bcrypt.compare(password, digest): the password hashed with the salt of the
\* digest gives the digest
BcryptCompare(password, digest) == \E salt \in Salts : digest = Hash(password, salt)

\* validate: { isEmail: true }
IsEmail(email) == email \notin NotEmails

\* WithoutPassword that returns the row as stored
WithoutPassword_WholeRow(user) ==
  [id |-> user.id, email |-> user.email, name |-> user.name, password |-> user.password]

\* const { password: _, ...userWithoutPassword } = user.get({ plain: true })
WithoutPassword(user) == [id |-> user.id, email |-> user.email, name |-> user.name]

UserExists(id) == id \in 1..Len(users)

\* User.findOne({ where: { email } }): the rows found (none or one)
FindByEmail(email) ==
  IF \E i \in 1..Len(users) : users[i].email = email
    THEN <<users[CHOOSE i \in 1..Len(users) : users[i].email = email]>>
    ELSE <<>>

\* GET /users/:id
GetUser(id) ==
  IF UserExists(id)
    THEN HttpReply(200, WithoutPassword(users[id]))
    ELSE HttpReply(404, [text |-> "Utilisateur non trouve"])

\* the row User.create writes
NewUser(email, hashed, name) ==
  [id |-> Len(users) + 1, email |-> email, password |-> hashed, name |-> name]

IdleAcct ==
  [kind |-> "none", pc |-> "idle", id |-> 0, email |-> "", password |-> "", name |-> "",
   hashed |-> "", row |-> <<>>, status |-> 0, msg |-> "", failed |-> FALSE,
   out |-> <<>>]

\* a slot takes a new request when it is idle or its last request is answered
CanStartAcct(a) == acct[a].pc \in {"idle", "done"}

\* res.status(s).send(m) or res.status(s).json(out[1])
AcctAnswer(rq, s, m, out) == [rq EXCEPT !.pc = "done", !.status = s, !.msg = m, !.out = out]

\* POST /register: the body is read and the password hashed
RegisterReceive(a, body, salt) ==
  /\ CanStartAcct(a)
  /\ LET email == Text(body, "email")
         password == Text(body, "password")
         name == Text(body, "name")
         rq == [IdleAcct EXCEPT !.kind = "register", !.email = email,
                                !.password = password, !.name = name]
     IN acct' = [acct EXCEPT ![a] =
          IF Blank(email) \/ Blank(password) \/ Blank(name)
            THEN AcctAnswer(rq, 400, MSG_REGISTER_REQUIRED, <<>>)
            ELSE [rq EXCEPT !.pc = "create", !.hashed = Hash(password, salt)]]
  /\ UNCHANGED <<users, books, bookSeq, orders, req, cat>>

\* RegisterCreate on a table without the unique constraint on email
RegisterCreate_NoUniqueConstraint(a) ==
  /\ acct[a].kind = "register" /\ acct[a].pc = "create"
  /\ IF ~IsEmail(acct[a].email)
       THEN /\ acct' = [acct EXCEPT ![a] = AcctAnswer(@, 400, "Validation Error", <<>>)]
            /\ users' = users
       ELSE LET user == NewUser(acct[a].email, acct[a].hashed, acct[a].name)
            IN /\ users' = Append(users, user)
               /\ acct' = [acct EXCEPT ![a] =
                    AcctAnswer(@, 201, "", <<WithoutPassword(user)>>)]
  /\ UNCHANGED <<books, bookSeq, orders, req, cat>>

\* POST /register: User.create settles (validation, then the INSERT under the
\* unique constraint on email)
RegisterCreate(a) ==
  /\ acct[a].kind = "register" /\ acct[a].pc = "create"
  /\ IF ~IsEmail(acct[a].email)
       THEN /\ acct' = [acct EXCEPT ![a] = AcctAnswer(@, 400, "Validation Error", <<>>)]
            /\ users' = users
       ELSE IF FindByEmail(acct[a].email) # <<>>
       THEN /\ acct' = [acct EXCEPT ![a] = AcctAnswer(@, 409, MSG_EMAIL_TAKEN, <<>>)]
            /\ users' = users
       ELSE LET user == NewUser(acct[a].email, acct[a].hashed, acct[a].name)
            IN /\ users' = Append(users, user)
               /\ acct' = [acct EXCEPT ![a] =
                    AcctAnswer(@, 201, "", <<WithoutPassword(user)>>)]
  /\ UNCHANGED <<books, bookSeq, orders, req, cat>>

\* LoginFind that tells an unknown email apart
LoginFind_NamesUnknownEmail(a, body) ==
  /\ CanStartAcct(a)
  /\ LET email == Text(body, "email")
         password == Text(body, "password")
         rq == [IdleAcct EXCEPT !.kind = "login", !.email = email, !.password = password]
     IN acct' = [acct EXCEPT ![a] =
          IF Blank(email) \/ Blank(password)
            THEN AcctAnswer(rq, 400, MSG_LOGIN_REQUIRED, <<>>)
          ELSE IF FindByEmail(email) = <<>>
            THEN AcctAnswer(rq, 404, "Utilisateur non trouve", <<>>)
          ELSE [rq EXCEPT !.pc = "compare", !.row = FindByEmail(email)]]
  /\ UNCHANGED <<users, books, bookSeq, orders, req, cat>>

\* POST /login: the body is read and User.findOne settles
LoginFind(a, body) ==
  /\ CanStartAcct(a)
  /\ LET email == Text(body, "email")
         password == Text(body, "password")
         rq == [IdleAcct EXCEPT !.kind = "login", !.email = email, !.password = password]
     IN acct' = [acct EXCEPT ![a] =
          IF Blank(email) \/ Blank(password)
            THEN AcctAnswer(rq, 400, MSG_LOGIN_REQUIRED, <<>>)
          ELSE IF FindByEmail(email) = <<>>
            THEN AcctAnswer(rq, 401, MSG_INVALID_LOGIN, <<>>)
          ELSE [rq EXCEPT !.pc = "compare", !.row = FindByEmail(email)]]
  /\ UNCHANGED <<users, books, bookSeq, orders, req, cat>>

\* POST /login: bcrypt.compare settles
LoginCompare(a) ==
  /\ acct[a].kind = "login" /\ acct[a].pc = "compare"
  /\ acct' = [acct EXCEPT ![a] =
       IF BcryptCompare(@.password, @.row[1].password)
         THEN AcctAnswer(@, 200, "",
                <<[message |-> "Connexion reussie", user |-> WithoutPassword(@.row[1])]>>)
         ELSE AcctAnswer(@, 401, MSG_INVALID_LOGIN, <<>>)]
  /\ UNCHANGED <<users, books, bookSeq, orders, req, cat>>

\* GET /users/:id, asked by a client of the account service
ReadUser(a, id) ==
  /\ CanStartAcct(a)
  /\ acct' = [acct EXCEPT ![a] =
       IF UserExists(id)
         THEN AcctAnswer([IdleAcct EXCEPT !.kind = "get", !.id = id], 200, "",
                <<GetUser(id).data>>)
         ELSE AcctAnswer([IdleAcct EXCEPT !.kind = "get", !.id = id], 404,
                "Utilisateur non trouve", <<>>)]
  /\ UNCHANGED <<users, books, bookSeq, orders, req, cat>>

\* POST /register: User.create is rejected by the store (not a unique or a
\* validation error, which the store raises only for a row it has examined)
RegisterCreateFails(a) ==
  /\ acct[a].kind = "register" /\ acct[a].pc = "create"
  /\ IsEmail(acct[a].email)
  /\ acct' = [acct EXCEPT ![a] =
       StoreFailed(AcctAnswer(@, 500, "Erreur serveur lors de l'inscription", <<>>))]
  /\ UNCHANGED <<users, books, bookSeq, orders, req, cat>>

\* POST /login: User.findOne is rejected by the store
LoginFindFails(a, body) ==
  /\ CanStartAcct(a)
  /\ ~Blank(Text(body, "email")) /\ ~Blank(Text(body, "password"))
  /\ LET rq == [IdleAcct EXCEPT !.kind = "login", !.email = body.email,
                                !.password = body.password]
     IN acct' = [acct EXCEPT ![a] =
          StoreFailed(AcctAnswer(rq, 500, "Erreur serveur lors de la connexion", <<>>))]
  /\ UNCHANGED <<users, books, bookSeq, orders, req, cat>>

\* GET /users/:id: User.findByPk is rejected by the store
ReadUserFails(a, id) ==
  /\ CanStartAcct(a)
  /\ acct' = [acct EXCEPT ![a] =
       StoreFailed(AcctAnswer([IdleAcct EXCEPT !.kind = "get", !.id = id], 500,
                              "Erreur serveur", <<>>))]
  /\ UNCHANGED <<users, books, bookSeq, orders, req, cat>>

\* a registration is served from its request to its answer with no other
\* step in between: the row of a new account is written
Register(email, password, name, salt) ==
  /\ ~Blank(email) /\ ~Blank(password) /\ ~Blank(name)
  /\ IsEmail(email) /\ FindByEmail(email) = <<>>
  /\ users' = Append(users, NewUser(email, Hash(password, salt), name))
  /\ UNCHANGED <<books, bookSeq, orders, req, acct, cat>>

---------------------------------------------------------------------------
(* Catalog service *)

\* an INTEGER column that allows NULL holds <<>> (NULL) or <<n>>; a body that
\* has no such key leaves the column NULL
Column(body, key) == IF key \in DOMAIN body THEN body[key] ELSE <<>>

BookExists(id) == \E b \in books : b.id = id
BookRow(id) == CHOOSE b \in books : b.id = id

\* GET /livres/:id
GetBook(id) ==
  IF BookExists(id)
    THEN HttpReply(200, BookRow(id))
    ELSE HttpReply(404, [text |-> "Livre non trouve"])

\* no catalog request served yet
IdleCat ==
  [op |-> "none", id |-> 0, body |-> <<>>, status |-> 0, failed |-> FALSE, out |-> <<>>]

\* the request the catalog served last, with the status and the body of its answer
Served(op, id, body, status, out) ==
  [op |-> op, id |-> id, body |-> body, status |-> status, failed |-> FALSE,
   out |-> out]

\* NewBook that leaves year out of the INSERT
NewBook_WithoutYear(body) ==
  [id |-> bookSeq + 1, title |-> body.title, author |-> body.author, year |-> <<>>]

\* the row Book.create writes
NewBook(body) ==
  [id |-> bookSeq + 1, title |-> body.title, author |-> body.author,
   year |-> Column(body, "year")]

\* POST /livres
CreateBook(body) ==
  /\ IF Blank(Text(body, "title")) \/ Blank(Text(body, "author"))
       THEN /\ cat' = Served("post", 0, <<body>>, 400, <<>>)
            /\ UNCHANGED <<books, bookSeq>>
       ELSE /\ bookSeq' = bookSeq + 1
            /\ books' = books \cup {NewBook(body)}
            /\ cat' = Served("post", 0, <<body>>, 201, <<NewBook(body)>>)
  /\ UNCHANGED <<users, orders, req, acct>>

\* GET /livres/:id, asked by a client of the catalog
ReadBook(id) ==
  /\ cat' = Served("get", id, <<>>, GetBook(id).status,
                   IF BookExists(id) THEN <<GetBook(id).data>> ELSE <<>>)
  /\ UNCHANGED <<users, books, bookSeq, orders, req, acct>>

\* Updated that replaces the whole row by the body, as a full PUT would
Updated_ReplacesRow(book, body) ==
  [id |-> book.id,
   title |-> Text(body, "title"),
   author |-> Text(body, "author"),
   year |-> Column(body, "year")]

\* the row after PUT /livres/:id: a text is replaced when the body gives one,
\* year whenever the body has the key
Updated(book, body) ==
  [id |-> book.id,
   title |-> IF Blank(Text(body, "title")) THEN book.title ELSE body.title,
   author |-> IF Blank(Text(body, "author")) THEN book.author ELSE body.author,
   year |-> IF "year" \in DOMAIN body THEN body.year ELSE book.year]

\* UpdateBook that stores the body as a new book when the id has none
UpdateBook_Upserts(id, body) ==
  /\ IF ~BookExists(id)
       THEN /\ books' = books \cup {[id |-> id, title |-> Text(body, "title"),
                                     author |-> Text(body, "author"),
                                     year |-> Column(body, "year")]}
            /\ cat' = Served("put", id, <<body>>, 200, <<>>)
       ELSE /\ books' = (books \ {BookRow(id)}) \cup {Updated(BookRow(id), body)}
            /\ cat' = Served("put", id, <<body>>, 200, <<Updated(BookRow(id), body)>>)
  /\ UNCHANGED <<users, bookSeq, orders, req, acct>>

\* PUT /livres/:id
UpdateBook(id, body) ==
  /\ IF ~BookExists(id)
       THEN /\ cat' = Served("put", id, <<body>>, 404, <<>>)
            /\ books' = books
       ELSE IF Blank(Text(body, "title")) /\ Blank(Text(body, "author"))
                 /\ "year" \notin DOMAIN body
       THEN /\ cat' = Served("put", id, <<body>>, 400, <<>>)
            /\ books' = books
       ELSE /\ books' = (books \ {BookRow(id)}) \cup {Updated(BookRow(id), body)}
            /\ cat' = Served("put", id, <<body>>, 200, <<Updated(BookRow(id), body)>>)
  /\ UNCHANGED <<users, bookSeq, orders, req, acct>>

\* DeleteBook that refuses a book some order references
DeleteBook_RefusesReferenced(id) ==
  /\ IF BookExists(id) /\ \E i \in 1..Len(orders) : orders[i].bookId = id
       THEN /\ books' = books
            /\ cat' = Served("delete", id, <<>>, 409, <<>>)
       ELSE IF BookExists(id)
       THEN /\ books' = books \ {BookRow(id)}
            /\ cat' = Served("delete", id, <<>>, 204, <<>>)
       ELSE /\ books' = books
            /\ cat' = Served("delete", id, <<>>, 404, <<>>)
  /\ UNCHANGED <<users, bookSeq, orders, req, acct>>

\* DELETE /livres/:id
DeleteBook(id) ==
  /\ IF BookExists(id)
       THEN /\ books' = books \ {BookRow(id)}
            /\ cat' = Served("delete", id, <<>>, 204, <<>>)
       ELSE /\ books' = books
            /\ cat' = Served("delete", id, <<>>, 404, <<>>)
  /\ UNCHANGED <<users, bookSeq, orders, req, acct>>

\* the rows of Book.findAll(), in the order of their ids
RECURSIVE BookList(_)
BookList(rows) ==
  IF rows = {} THEN <<>>
  ELSE LET first == CHOOSE b \in rows : \A c \in rows : b.id <= c.id
       IN <<first>> \o BookList(rows \ {first})

\* GET /livres
ListBooks ==
  /\ cat' = Served("list", 0, <<>>, 200, BookList(books))
  /\ UNCHANGED <<users, books, bookSeq, orders, req, acct>>

\* ListBooksFails that answers an empty list when Book.findAll is rejected
ListBooksFails_AnswersEmpty ==
  /\ cat' = StoreFailed(Served("list", 0, <<>>, 200, <<>>))
  /\ UNCHANGED <<users, books, bookSeq, orders, req, acct>>

\* GET /livres: Book.findAll is rejected by the store
ListBooksFails ==
  /\ cat' = StoreFailed(Served("list", 0, <<>>, 500, <<>>))
  /\ UNCHANGED <<users, books, bookSeq, orders, req, acct>>

\* GET /livres/:id: Book.findByPk is rejected by the store
ReadBookFails(id) ==
  /\ cat' = StoreFailed(Served("get", id, <<>>, 500, <<>>))
  /\ UNCHANGED <<users, books, bookSeq, orders, req, acct>>

\* POST /livres: Book.create is rejected by the store; a body without title
\* or author is answered before the store is called
CreateBookFails(body) ==
  /\ ~Blank(Text(body, "title")) /\ ~Blank(Text(body, "author"))
  /\ cat' = StoreFailed(Served("post", 0, <<body>>, 500, <<>>))
  /\ UNCHANGED <<users, books, bookSeq, orders, req, acct>>

\* PUT /livres/:id: Book.findByPk or book.save is rejected by the store
UpdateBookFails(id, body) ==
  /\ cat' = StoreFailed(Served("put", id, <<body>>, 500, <<>>))
  /\ UNCHANGED <<users, books, bookSeq, orders, req, acct>>

\* DELETE /livres/:id: Book.findByPk or book.destroy is rejected by the store
DeleteBookFails(id) ==
  /\ cat' = StoreFailed(Served("delete", id, <<>>, 500, <<>>))
  /\ UNCHANGED <<users, books, bookSeq, orders, req, acct>>

---------------------------------------------------------------------------
(* What a call of the order service to a peer can yield *)

\* the peer's own answer, or: no response (refused, reset, timeout), a 5xx,
\* or a 2xx answer for an existing row whose body is an object without the
\* display field, or null
UserReplies(id) ==
  {GetUser(id), NoResponse, HttpReply(500, [text |-> "Erreur serveur"])}
    \cup (IF UserExists(id) THEN {HttpReply(200, [id |-> id]), HttpReply(200, NULL)}
                            ELSE {})

BookReplies(id) ==
  {GetBook(id), NoResponse, HttpReply(500, [text |-> "Erreur serveur"])}
    \cup (IF BookExists(id) THEN {HttpReply(200, [id |-> id]), HttpReply(200, NULL)}
                            ELSE {})

---------------------------------------------------------------------------
(* Order service: requests *)

IdleReq ==
  [kind |-> "none", pc |-> "idle", body |-> <<>>, userId |-> 0, bookId |-> 0,
   param |-> <<>>,
   calls |-> <<>>, uResp |-> <<>>, bResp |-> <<>>, found |-> <<>>,
   status |-> 0, msg |-> "", sent |-> 0, failed |-> FALSE, created |-> <<>>,
   out |-> <<>>]

\* a slot takes a new request when it is idle or its last request is answered
CanStart(r) == req[r].pc \in {"idle", "done"}

\* POST requests that are accepted and not yet answered
InFlightPosts == {q \in Reqs : req[q].kind = "post" /\ req[q].pc \notin {"idle", "done"}}

\* res.status(s).send(m): the request is answered; sent counts the responses
\* the request has sent
Answer(rq, s, m) ==
  [rq EXCEPT !.pc = "done", !.status = s, !.msg = m, !.sent = @ + 1]

Init ==
  /\ users = <<>>
  /\ books = {}
  /\ bookSeq = 0
  /\ orders = <<>>
  /\ req = [r \in Reqs |-> IdleReq]
  /\ acct = [a \in AcctReqs |-> IdleAcct]
  /\ cat = IdleCat

---------------------------------------------------------------------------
(* POST /commandes *)

\* PostReceive with `if (!userId)` for the test of the body
PostReceive_ChecksUserOnly(r, userId, bookId) ==
  /\ r \in Writers /\ CanStart(r)
  /\ LET rq == [IdleReq EXCEPT !.kind = "post",
                               !.body = <<[userId |-> userId, bookId |-> bookId]>>,
                               !.userId = userId, !.bookId = bookId]
     IN req' = [req EXCEPT ![r] =
          IF Falsy(userId)
            THEN Answer(rq, 400, MSG_REQUIRED)
            ELSE [rq EXCEPT !.pc = "awaitUser", !.calls = <<"users">>]]
  /\ UNCHANGED <<users, books, bookSeq, orders, acct, cat>>

\* const { userId, bookId } = req.body: a key the body lacks reads as
\* undefined, which is falsy like 0
Field(body, key) == IF key \in DOMAIN body THEN body[key] ELSE 0

\* the body is read: userId and bookId are taken from it and nothing else;
\* both identifiers present: the user lookup is issued
PostReceiveBody(r, body) ==
  /\ r \in Writers /\ CanStart(r)
  /\ LET rq == [IdleReq EXCEPT !.kind = "post", !.body = <<body>>,
                               !.userId = Field(body, "userId"),
                               !.bookId = Field(body, "bookId")]
     IN req' = [req EXCEPT ![r] =
          IF Falsy(rq.userId) \/ Falsy(rq.bookId)
            THEN Answer(rq, 400, MSG_REQUIRED)
            ELSE [rq EXCEPT !.pc = "awaitUser", !.calls = <<"users">>]]
  /\ UNCHANGED <<users, books, bookSeq, orders, acct, cat>>

\* POST /commandes with a body of exactly userId and bookId
PostReceive(r, userId, bookId) ==
  PostReceiveBody(r, [userId |-> userId, bookId |-> bookId])

\* PostUserReply without the book lookup: a verified user goes straight to the write
PostUserReply_SkipsBook(r, resp) ==
  /\ req[r].kind = "post" /\ req[r].pc = "awaitUser"
  /\ LET rq == [req[r] EXCEPT !.uResp = <<resp>>]
     IN req' = [req EXCEPT ![r] =
          IF AxiosResolves(resp)
            THEN [rq EXCEPT !.pc = "create"]
            ELSE IF IsNotFound(resp)
              THEN Answer(rq, 404, MSG_USER_NOT_FOUND)
              ELSE Answer(rq, 500, MSG_USER_CHECK)]
  /\ UNCHANGED <<users, books, bookSeq, orders, acct, cat>>

\* PostUserReply whose catch answers only the 404: any other failure is logged
\* and the handler goes on to the book lookup
PostUserReply_FallsThrough(r, resp) ==
  /\ req[r].kind = "post" /\ req[r].pc = "awaitUser"
  /\ LET rq == [req[r] EXCEPT !.uResp = <<resp>>]
     IN req' = [req EXCEPT ![r] =
          IF IsNotFound(resp)
            THEN Answer(rq, 404, MSG_USER_NOT_FOUND)
            ELSE [rq EXCEPT !.pc = "awaitBook", !.calls = Append(@, "livres")]]
  /\ UNCHANGED <<users, books, bookSeq, orders, acct, cat>>

\* PostUserReply that goes on to the book lookup whatever the user lookup yields
PostUserReply_AcceptsAny(r, resp) ==
  /\ req[r].kind = "post" /\ req[r].pc = "awaitUser"
  /\ req' = [req EXCEPT ![r] =
       [@ EXCEPT !.uResp = <<resp>>, !.pc = "awaitBook", !.calls = Append(@, "livres")]]
  /\ UNCHANGED <<users, books, bookSeq, orders, acct, cat>>

\* PostUserReply whose catch sends its response without returning: the
\* handler goes on to the book lookup after it has answered
PostUserReply_NoReturn(r, resp) ==
  /\ req[r].kind = "post" /\ req[r].pc = "awaitUser"
  /\ LET rq == [req[r] EXCEPT !.uResp = <<resp>>]
         on == [pc |-> "awaitBook", calls |-> Append(rq.calls, "livres")]
     IN req' = [req EXCEPT ![r] =
          IF AxiosResolves(resp)
            THEN [rq EXCEPT !.pc = on.pc, !.calls = on.calls]
            ELSE IF IsNotFound(resp)
              THEN [Answer(rq, 404, MSG_USER_NOT_FOUND) EXCEPT !.pc = on.pc, !.calls = on.calls]
              ELSE [Answer(rq, 500, MSG_USER_CHECK) EXCEPT !.pc = on.pc, !.calls = on.calls]]
  /\ UNCHANGED <<users, books, bookSeq, orders, acct, cat>>

\* the user lookup settles; on success the book lookup is issued
PostUserReply(r, resp) ==
  /\ req[r].kind = "post" /\ req[r].pc = "awaitUser"
  /\ LET rq == [req[r] EXCEPT !.uResp = <<resp>>]
     IN req' = [req EXCEPT ![r] =
          IF AxiosResolves(resp)
            THEN [rq EXCEPT !.pc = "awaitBook", !.calls = Append(@, "livres")]
            ELSE IF IsNotFound(resp)
              THEN Answer(rq, 404, MSG_USER_NOT_FOUND)
              ELSE Answer(rq, 500, MSG_USER_CHECK)]
  /\ UNCHANGED <<users, books, bookSeq, orders, acct, cat>>

\* bookDetails = bookResponse.data; bookDetails.title is read for the log line,
\* which throws a TypeError (an error without .response) when the body is null
BookVerified(resp) == AxiosResolves(resp) /\ resp.data # NULL

\* PostBookReply without the 404 branch: every failure is answered 500
PostBookReply_NoNotFoundBranch(r, resp) ==
  /\ req[r].kind = "post" /\ req[r].pc = "awaitBook"
  /\ LET rq == [req[r] EXCEPT !.bResp = <<resp>>]
     IN req' = [req EXCEPT ![r] =
          IF BookVerified(resp)
            THEN [rq EXCEPT !.pc = "create"]
            ELSE Answer(rq, 500, MSG_BOOK_CHECK)]
  /\ UNCHANGED <<users, books, bookSeq, orders, acct, cat>>

\* PostBookReply whose catch answers only the 404: any other failure is logged
\* and the handler goes on to the write
PostBookReply_SwallowsFailure(r, resp) ==
  /\ req[r].kind = "post" /\ req[r].pc = "awaitBook"
  /\ LET rq == [req[r] EXCEPT !.bResp = <<resp>>]
     IN req' = [req EXCEPT ![r] =
          IF IsNotFound(resp)
            THEN Answer(rq, 404, MSG_BOOK_NOT_FOUND)
            ELSE [rq EXCEPT !.pc = "create"]]
  /\ UNCHANGED <<users, books, bookSeq, orders, acct, cat>>

\* the book lookup settles; on success the order is handed to the store
PostBookReply(r, resp) ==
  /\ req[r].kind = "post" /\ req[r].pc = "awaitBook"
  /\ LET rq == [req[r] EXCEPT !.bResp = <<resp>>]
     IN req' = [req EXCEPT ![r] =
          IF BookVerified(resp)
            THEN [rq EXCEPT !.pc = "create"]
            ELSE IF IsNotFound(resp)
              THEN Answer(rq, 404, MSG_BOOK_NOT_FOUND)
              ELSE Answer(rq, 500, MSG_BOOK_CHECK)]
  /\ UNCHANGED <<users, books, bookSeq, orders, acct, cat>>

\* NewOrder with another initial status
NewOrder_OtherStatus(userId, bookId) ==
  [id |-> Len(orders) + 1, userId |-> userId, bookId |-> bookId, status |-> "Expediee"]

\* the row Order.create writes
NewOrder(userId, bookId) ==
  [id |-> Len(orders) + 1, userId |-> userId, bookId |-> bookId, status |-> EN_COURS]

\* PostCreate that writes the status the body supplies, when it supplies one
PostCreate_TakesClientStatus(r, dbOk) ==
  /\ req[r].kind = "post" /\ req[r].pc = "create"
  /\ IF dbOk
       THEN LET o == [NewOrder(req[r].userId, req[r].bookId) EXCEPT !.status =
                       IF "status" \in DOMAIN req[r].body[1]
                         THEN req[r].body[1].status ELSE @]
            IN /\ orders' = Append(orders, o)
               /\ req' = [req EXCEPT ![r] =
                    [Answer(@, 201, "") EXCEPT !.created = <<o>>]]
       ELSE /\ orders' = orders
            /\ req' = [req EXCEPT ![r] = StoreFailed(Answer(@, 500, MSG_DB))]
  /\ UNCHANGED <<users, books, bookSeq, acct, cat>>

\* Order.create settles: the row is written and returned, or the store fails
PostCreate(r, dbOk) ==
  /\ req[r].kind = "post" /\ req[r].pc = "create"
  /\ IF dbOk
       THEN LET o == NewOrder(req[r].userId, req[r].bookId)
            IN /\ orders' = Append(orders, o)
               /\ req' = [req EXCEPT ![r] =
                    [Answer(@, 201, "") EXCEPT !.created = <<o>>]]
       ELSE /\ orders' = orders
            /\ req' = [req EXCEPT ![r] = StoreFailed(Answer(@, 500, MSG_DB))]
  /\ UNCHANGED <<users, books, bookSeq, acct, cat>>

---------------------------------------------------------------------------
(* Enrichment, shared by GET /commandes and GET /commandes/:id *)

\* axios.get(...).catch(err => null)
CatchNull(resp) == IF AxiosResolves(resp) THEN resp ELSE NULL

\* if (userResponse?.data) userName = userResponse.data.name
UserNameOf(userResponse) ==
  IF userResponse = NULL \/ userResponse.data = NULL THEN UNKNOWN_USER
  ELSE IF "name" \in DOMAIN userResponse.data THEN userResponse.data.name
  ELSE UNDEFINED

\* if (bookResponse?.data) bookTitle = bookResponse.data.title
BookTitleOf(bookResponse) ==
  IF bookResponse = NULL \/ bookResponse.data = NULL THEN UNKNOWN_BOOK
  ELSE IF "title" \in DOMAIN bookResponse.data THEN bookResponse.data.title
  ELSE UNDEFINED

\* Enriched when the two lookups share one catch: a failure of either leaves
\* both fields at their defaults
Enriched_BothOrNone(order, userResponse, bookResponse) ==
  [id |-> order.id, userId |-> order.userId, bookId |-> order.bookId,
   status |-> order.status,
   userName |-> IF userResponse = NULL \/ bookResponse = NULL
                  THEN UNKNOWN_USER ELSE UserNameOf(userResponse),
   bookTitle |-> IF userResponse = NULL \/ bookResponse = NULL
                   THEN UNKNOWN_BOOK ELSE BookTitleOf(bookResponse)]

\* { ...order.get({ plain: true }), userName, bookTitle }
Enriched(order, userResponse, bookResponse) ==
  [id |-> order.id, userId |-> order.userId, bookId |-> order.bookId,
   status |-> order.status,
   userName |-> UserNameOf(userResponse), bookTitle |-> BookTitleOf(bookResponse)]

Settled(rq) ==
  \A i \in 1..Len(rq.found) : rq.uResp[i] # PENDING /\ rq.bResp[i] # PENDING

\* both lookups of every order are issued; the handler waits for all of them
IssueLookups(rq, found) ==
  [rq EXCEPT !.pc = "enrich", !.found = found,
     !.calls = [k \in 1..(2 * Len(found)) |-> IF k % 2 = 1 THEN "users" ELSE "livres"],
     !.uResp = [i \in 1..Len(found) |-> PENDING],
     !.bResp = [i \in 1..Len(found) |-> PENDING]]

\* Compose when a failed lookup rejects the whole Promise.all: the request fails
Compose_FailsOnFailedLookup(rq) ==
  IF ~Settled(rq) THEN rq
  ELSE IF \E i \in 1..Len(rq.found) : rq.uResp[i] = NULL \/ rq.bResp[i] = NULL
    THEN Answer(rq, 500, "Erreur serveur")
  ELSE [Answer(rq, 200, "") EXCEPT
          !.out = [i \in 1..Len(rq.found) |->
                     Enriched(rq.found[i], rq.uResp[i], rq.bResp[i])]]

\* res.json(...) once every lookup has settled
Compose(rq) ==
  IF Settled(rq)
    THEN [Answer(rq, 200, "") EXCEPT
            !.out = [i \in 1..Len(rq.found) |->
                       Enriched(rq.found[i], rq.uResp[i], rq.bResp[i])]]
    ELSE rq

\* UserSettles that files the answers in the order they arrive
UserSettles_InArrivalOrder(r, i, resp) ==
  /\ req[r].pc = "enrich"
  /\ i \in 1..Len(req[r].found)
  /\ req[r].uResp[i] = PENDING
  /\ LET first == CHOOSE j \in 1..Len(req[r].found) :
                     /\ req[r].uResp[j] = PENDING
                     /\ \A k \in 1..(j - 1) : req[r].uResp[k] # PENDING
     IN req' = [req EXCEPT ![r] = Compose([@ EXCEPT !.uResp[first] = CatchNull(resp)])]
  /\ UNCHANGED <<users, books, bookSeq, orders, acct, cat>>

\* the user lookup of the i-th order settles
UserSettles(r, i, resp) ==
  /\ req[r].pc = "enrich"
  /\ i \in 1..Len(req[r].found)
  /\ req[r].uResp[i] = PENDING
  /\ req' = [req EXCEPT ![r] = Compose([@ EXCEPT !.uResp[i] = CatchNull(resp)])]
  /\ UNCHANGED <<users, books, bookSeq, orders, acct, cat>>

\* the book lookup of the i-th order settles
BookSettles(r, i, resp) ==
  /\ req[r].pc = "enrich"
  /\ i \in 1..Len(req[r].found)
  /\ req[r].bResp[i] = PENDING
  /\ req' = [req EXCEPT ![r] = Compose([@ EXCEPT !.bResp[i] = CatchNull(resp)])]
  /\ UNCHANGED <<users, books, bookSeq, orders, acct, cat>>

---------------------------------------------------------------------------
(* GET /commandes *)

\* ListFind that marks the rows it reads
ListFind_MarksRead(r, dbOk) ==
  /\ r \in Reqs /\ CanStart(r)
  /\ LET rq == [IdleReq EXCEPT !.kind = "list"]
     IN req' = [req EXCEPT ![r] =
          IF ~dbOk THEN StoreFailed(Answer(rq, 500, "Erreur serveur"))
          ELSE Compose(IssueLookups(rq, orders))]
  /\ orders' = [i \in 1..Len(orders) |-> [orders[i] EXCEPT !.status = "Consultee"]]
  /\ UNCHANGED <<users, books, bookSeq, acct, cat>>

\* Order.findAll settles: the rows are read, or the store fails
ListFind(r, dbOk) ==
  /\ r \in Reqs /\ CanStart(r)
  /\ LET rq == [IdleReq EXCEPT !.kind = "list"]
     IN req' = [req EXCEPT ![r] =
          IF ~dbOk THEN StoreFailed(Answer(rq, 500, "Erreur serveur"))
          ELSE Compose(IssueLookups(rq, orders))]
  /\ UNCHANGED <<users, books, bookSeq, orders, acct, cat>>

ListUserReply(r, i, resp) == req[r].kind = "list" /\ UserSettles(r, i, resp)

ListBookReply(r, i, resp) == req[r].kind = "list" /\ BookSettles(r, i, resp)

---------------------------------------------------------------------------
(* GET /commandes/:id *)

NaN == -1
DigitChars == {"0", "1", "2", "3", "4", "5", "6", "7", "8", "9"}
DigitVal(c) ==
  CASE c = "0" -> 0 [] c = "1" -> 1 [] c = "2" -> 2 [] c = "3" -> 3 [] c = "4" -> 4
    [] c = "5" -> 5 [] c = "6" -> 6 [] c = "7" -> 7 [] c = "8" -> 8 [] c = "9" -> 9

\* parseInt(s, 10) on a parameter without sign or blanks: the value of the
\* longest prefix of digits, NaN when that prefix is empty
RECURSIVE ParseDigits(_, _)
ParseDigits(s, acc) ==
  IF s = <<>> \/ Head(s) \notin DigitChars THEN acc
  ELSE ParseDigits(Tail(s), 10 * acc + DigitVal(Head(s)))

ParseInt(s) ==
  IF s = <<>> \/ Head(s) \notin DigitChars THEN NaN ELSE ParseDigits(s, 0)

\* Order.findByPk(orderId): the rows found (none or one)
FindByPk(orderId) ==
  IF orderId \in 1..Len(orders) THEN <<orders[orderId]>> ELSE <<>>

\* the id is parsed, then Order.findByPk settles
GetFind(r, param, dbOk) ==
  /\ r \in Reqs /\ CanStart(r)
  /\ LET rq == [IdleReq EXCEPT !.kind = "get", !.param = param]
         orderId == ParseInt(param)
     IN req' = [req EXCEPT ![r] =
          IF orderId = NaN THEN Answer(rq, 400, "ID de commande invalide")
          ELSE IF ~dbOk THEN StoreFailed(Answer(rq, 500, "Erreur serveur"))
          ELSE IF FindByPk(orderId) = <<>> THEN Answer(rq, 404, "Commande non trouvee")
          ELSE IssueLookups(rq, FindByPk(orderId))]
  /\ UNCHANGED <<users, books, bookSeq, orders, acct, cat>>

GetUserReply(r, resp) == req[r].kind = "get" /\ UserSettles(r, 1, resp)

GetBookReply(r, resp) == req[r].kind = "get" /\ BookSettles(r, 1, resp)

---------------------------------------------------------------------------
(* The stores grow without limit; each specification lets them grow up to    *)
(* its bounds.                                                              *)

\* fewer than n orders are written or on their way
OrdersLeft(n) == Len(orders) + Cardinality(InFlightPosts) < n

\* the registration of slot a is about to insert a row
Inserts(a) ==
  /\ acct[a].kind = "register" /\ acct[a].pc = "create"
  /\ IsEmail(acct[a].email) /\ FindByEmail(acct[a].email) = <<>>

Next ==
  \/ Len(users) < MaxUsers /\
       \E k \in {Len(users) + 1} : Register(Emails[k], "pw1", Names[k], "s1")
  \/ bookSeq < MaxBooks /\ \E body \in {BookBody(bookSeq + 1)} : CreateBook(body)
  \/ \E b \in {x.id : x \in books} : DeleteBook(b)
  \/ OrdersLeft(MaxOrders) /\
       \E r \in Reqs, u \in UserIds, b \in BookIds : PostReceive(r, u, b)
  \/ \E r \in Reqs : \E resp \in UserReplies(req[r].userId) : PostUserReply(r, resp)
  \/ \E r \in Reqs : \E resp \in BookReplies(req[r].bookId) : PostBookReply(r, resp)
  \/ \E r \in Reqs : PostCreate(r, TRUE)
  \/ \E r \in OneReader : ListFind(r, TRUE)
  \/ \E r \in Reqs, i \in 1..MaxOrders :
       i <= Len(req[r].found) /\ \E resp \in UserReplies(req[r].found[i].userId) :
         ListUserReply(r, i, resp)
  \/ \E r \in Reqs, i \in 1..MaxOrders :
       i <= Len(req[r].found) /\ \E resp \in BookReplies(req[r].found[i].bookId) :
         ListBookReply(r, i, resp)
  \/ \E r \in OneReader, p \in IdParams : GetFind(r, p, TRUE)
  \/ \E r \in Reqs : Len(req[r].found) = 1 /\
       \E resp \in UserReplies(req[r].found[1].userId) : GetUserReply(r, resp)
  \/ \E r \in Reqs : Len(req[r].found) = 1 /\
       \E resp \in BookReplies(req[r].found[1].bookId) : GetBookReply(r, resp)

Spec == Init /\ [][Next]_vars

\* Spec with the steps the order service takes by itself: once Order.create is
\* called it settles.  No step is promised for a peer: the calls carry no
\* timeout, and a peer that holds a call open settles it never.
SpecLive == Spec /\ WF_vars(\E r \in Reqs : PostCreate(r, TRUE))

\* no request that reads orders has been received yet
NoReadYet == \A r \in Readers : req[r].pc = "idle"

\* GET /commandes asked twice with no write in between: the stores are written
\* (over peers that answer) until the first read is received, and from then on
\* only GET /commandes requests are served, over peers that answer or do not
NextTwoReads ==
  \/ NoReadYet /\ Len(users) < MaxUsers /\
       \E k \in {Len(users) + 1} : Register(Emails[k], "pw1", Names[k], "s1")
  \/ NoReadYet /\ bookSeq < MaxBooks /\
       \E body \in {BookBody(bookSeq + 1)} : CreateBook(body)
  \/ NoReadYet /\ \E b \in {x.id : x \in books} : DeleteBook(b)
  \/ NoReadYet /\ OrdersLeft(MaxOrders) /\
       \E r \in Reqs, u \in 1..MaxUsers, b \in 1..MaxBooks : PostReceive(r, u, b)
  \/ NoReadYet /\ \E r \in Reqs : PostUserReply(r, GetUser(req[r].userId))
  \/ NoReadYet /\ \E r \in Reqs : PostBookReply(r, GetBook(req[r].bookId))
  \/ NoReadYet /\ \E r \in Reqs : PostCreate(r, TRUE)
  \/ InFlightPosts = {} /\ \E r \in Readers : ListFind(r, TRUE)
  \/ \E r \in Reqs, i \in 1..MaxOrders :
       i <= Len(req[r].found) /\
         \E resp \in {GetUser(req[r].found[i].userId), NoResponse} :
           ListUserReply(r, i, resp)
  \/ \E r \in Reqs, i \in 1..MaxOrders :
       i <= Len(req[r].found) /\
         \E resp \in {GetBook(req[r].found[i].bookId), NoResponse} :
           ListBookReply(r, i, resp)

SpecTwoReads == Init /\ [][NextTwoReads]_vars

\* GET /commandes over several orders: the stores are written (over peers
\* that answer, one user, one book and one order more than under Spec) until
\* the read is received, and then its lookups settle in any order, answered
\* or not
NextListOfMany ==
  \/ NoReadYet /\ Len(users) < MaxUsers + 1 /\
       \E k \in {Len(users) + 1} : Register(Emails[k], "pw1", Names[k], "s1")
  \/ NoReadYet /\ bookSeq < MaxBooks + 1 /\
       \E body \in {BookBody(bookSeq + 1)} : CreateBook(body)
  \/ NoReadYet /\ OrdersLeft(MaxOrders + 1) /\
       \E r \in Reqs, u \in 1..(MaxUsers + 1), b \in 1..(MaxBooks + 1) :
         PostReceive(r, u, b)
  \/ NoReadYet /\ \E r \in Reqs : PostUserReply(r, GetUser(req[r].userId))
  \/ NoReadYet /\ \E r \in Reqs : PostBookReply(r, GetBook(req[r].bookId))
  \/ NoReadYet /\ \E r \in Reqs : PostCreate(r, TRUE)
  \/ InFlightPosts = {} /\ \E r \in OneReader : ListFind(r, TRUE)
  \/ \E r \in Reqs, i \in 1..(MaxOrders + 1) :
       i <= Len(req[r].found) /\
         \E resp \in {GetUser(req[r].found[i].userId), NoResponse} :
           ListUserReply(r, i, resp)
  \/ \E r \in Reqs, i \in 1..(MaxOrders + 1) :
       i <= Len(req[r].found) /\
         \E resp \in {GetBook(req[r].found[i].bookId), NoResponse} :
           ListBookReply(r, i, resp)

SpecListOfMany == Init /\ [][NextListOfMany]_vars

\* the account service alone, with every request its clients can send; the
\* store takes one user more than under Spec
NextAccount ==
  \/ \E a \in AcctReqs, body \in RegisterInputs, salt \in Salts :
       RegisterReceive(a, body, salt)
  \/ \E a \in AcctReqs : (Inserts(a) => Len(users) < MaxUsers + 1) /\ RegisterCreate(a)
  \/ \E a \in AcctReqs, body \in LoginInputs : LoginFind(a, body)
  \/ \E a \in AcctReqs : LoginCompare(a)
  \/ \E a \in AcctReqs, id \in 1..(MaxUsers + 1) : ReadUser(a, id)

SpecAccount == Init /\ [][NextAccount]_vars

\* the catalog service alone, with every request its clients can send
NextCatalog ==
  \/ \E body \in BookInputs :
       (~Blank(Text(body, "title")) /\ ~Blank(Text(body, "author")) => bookSeq < MaxBooks + 1)
         /\ CreateBook(body)
  \/ ListBooks
  \/ \E id \in 1..(MaxBooks + 2) : ReadBook(id)
  \/ \E id \in 1..(MaxBooks + 2), body \in UpdateInputs : UpdateBook(id, body)
  \/ \E id \in 1..(MaxBooks + 2) : DeleteBook(id)

SpecCatalog == Init /\ [][NextCatalog]_vars

---------------------------------------------------------------------------
(* The three services together: every exposed operation of each            *)

\* a status a client may put in the body of POST /commandes
CLIENT_STATUS == "Livree"

\* bodies of POST /commandes: the two identifiers and a status, one body
\* without a status and one without userId
OrderBodies ==
  {[userId |-> u, bookId |-> b, status |-> CLIENT_STATUS] :
     u \in 1..MaxUsers, b \in 1..MaxBooks}
    \cup {[userId |-> 1, bookId |-> 1], [bookId |-> 1]}

\* the account request slot the joint specification uses
OneAcct == {1}

\* the registration body of the k-th user
RegisterBody(k) == [email |-> Emails[k], password |-> "pw1", name |-> Names[k]]

NextServices ==
  \* account service
  \/ \E a \in OneAcct, k \in 1..MaxUsers : RegisterReceive(a, RegisterBody(k), "s1")
  \/ \E a \in OneAcct : RegisterCreate(a)
  \/ \E a \in OneAcct, k \in {1} :
       LoginFind(a, [email |-> Emails[k], password |-> "pw1"])
  \/ \E a \in OneAcct : LoginCompare(a)
  \/ \E a \in OneAcct, id \in {1} : ReadUser(a, id)
  \* catalog service
  \/ bookSeq < MaxBooks /\ \E body \in {BookBody(bookSeq + 1)} : CreateBook(body)
  \/ ListBooks
  \/ \E id \in {1} : ReadBook(id)
  \/ \E id \in {1} : UpdateBook(id, [title |-> "Persuasion"])
  \/ \E id \in 1..MaxBooks : DeleteBook(id)
  \* order service
  \/ OrdersLeft(MaxOrders) /\
       \E r \in Writers, body \in OrderBodies : PostReceiveBody(r, body)
  \/ \E r \in Writers : \E resp \in {GetUser(req[r].userId)} : PostUserReply(r, resp)
  \/ \E r \in Writers : \E resp \in {GetBook(req[r].bookId)} : PostBookReply(r, resp)
  \/ \E r \in Writers : PostCreate(r, TRUE)
  \/ \E r \in Writers : ListFind(r, TRUE)
  \/ \E r \in Writers, i \in 1..MaxOrders :
       i <= Len(req[r].found) /\ \E resp \in {GetUser(req[r].found[i].userId)} :
         ListUserReply(r, i, resp)
  \/ \E r \in Writers, i \in 1..MaxOrders :
       i <= Len(req[r].found) /\ \E resp \in {GetBook(req[r].found[i].bookId)} :
         ListBookReply(r, i, resp)
  \/ \E r \in Writers, p \in {<<"1">>} : GetFind(r, p, TRUE)
  \/ \E r \in Writers : Len(req[r].found) = 1 /\
       \E resp \in {GetUser(req[r].found[1].userId)} : GetUserReply(r, resp)
  \/ \E r \in Writers : Len(req[r].found) = 1 /\
       \E resp \in {GetBook(req[r].found[1].bookId)} : GetBookReply(r, resp)

SpecServices == Init /\ [][NextServices]_vars

---------------------------------------------------------------------------
(* The three services over stores that can reject an operation             *)

\* the steps in which a service's store rejects the operation of a handler
DbFault ==
  \/ \E r \in Writers : PostCreate(r, FALSE)
  \/ \E r \in Writers : ListFind(r, FALSE)
  \/ \E r \in Writers, p \in {<<"1">>} : GetFind(r, p, FALSE)
  \/ \E a \in OneAcct : RegisterCreateFails(a)
  \/ \E a \in OneAcct, k \in {1} :
       LoginFindFails(a, [email |-> Emails[k], password |-> "pw1"])
  \/ \E a \in OneAcct, id \in {1} : ReadUserFails(a, id)
  \/ ListBooksFails
  \/ \E id \in {1} : ReadBookFails(id)
  \/ bookSeq < MaxBooks /\ \E body \in {BookBody(bookSeq + 1)} : CreateBookFails(body)
  \/ \E id \in {1} : UpdateBookFails(id, [title |-> "Persuasion"])
  \/ \E id \in {1} : DeleteBookFails(id)

\* the writes that fill the three stores, over reliable peers
Writes ==
  \/ \E a \in OneAcct, k \in 1..MaxUsers : RegisterReceive(a, RegisterBody(k), "s1")
  \/ \E a \in OneAcct : RegisterCreate(a)
  \/ bookSeq < MaxBooks /\ \E body \in {BookBody(bookSeq + 1)} : CreateBook(body)
  \/ \E id \in {1} : UpdateBook(id, [title |-> "Persuasion"])
  \/ \E b \in {x.id : x \in books} : DeleteBook(b)
  \/ OrdersLeft(MaxOrders) /\
       \E r \in Writers, u \in 1..MaxUsers, b \in 1..MaxBooks : PostReceive(r, u, b)
  \/ \E r \in Writers : \E resp \in {GetUser(req[r].userId)} : PostUserReply(r, resp)
  \/ \E r \in Writers : \E resp \in {GetBook(req[r].bookId)} : PostBookReply(r, resp)
  \/ \E r \in Writers : PostCreate(r, TRUE)

NextDb == Writes \/ DbFault

SpecDb == Init /\ [][NextDb]_vars

---------------------------------------------------------------------------
(* POST /commandes alone, over failing peers and a failing order store     *)

NextPosts ==
  \/ Len(users) < MaxUsers /\
       \E k \in {Len(users) + 1} : Register(Emails[k], "pw1", Names[k], "s1")
  \/ bookSeq < MaxBooks /\ \E body \in {BookBody(bookSeq + 1)} : CreateBook(body)
  \/ \E b \in {x.id : x \in books} : DeleteBook(b)
  \/ OrdersLeft(MaxOrders + 1) /\
       \E r \in Writers, body \in OrderBodies : PostReceiveBody(r, body)
  \/ \E r \in Writers : \E resp \in UserReplies(req[r].userId) : PostUserReply(r, resp)
  \/ \E r \in Writers : \E resp \in BookReplies(req[r].bookId) : PostBookReply(r, resp)
  \/ \E r \in Writers, dbOk \in BOOLEAN : PostCreate(r, dbOk)

SpecPosts == Init /\ [][NextPosts]_vars

---------------------------------------------------------------------------
(* Vocabulary of the properties *)

Is2xx(resp) == resp.hasResponse /\ resp.status \in 200..299
Is404(resp) == resp.hasResponse /\ resp.status = 404

IsPost(rq) == rq.kind = "post"
Answered(rq) == rq.pc = "done"

\* the outcome of the user lookup and of the book lookup of a POST /commandes
UserLookupDone(rq) == Len(rq.uResp) = 1
BookLookupDone(rq) == Len(rq.bResp) = 1
UserConfirmed(rq) == UserLookupDone(rq) /\ Is2xx(rq.uResp[1])
BookConfirmed(rq) == BookLookupDone(rq) /\ Is2xx(rq.bResp[1])

\* the step answers request r
Answers(r) == req[r].pc # "done" /\ req'[r].pc = "done"
\* the step is taken by request r
StepOf(r) == req'[r] # req[r]

LastOrder(os) == os[Len(os)]

\* the fields of an order row that an answer carries
SameOrder(e, o) ==
  e.id = o.id /\ e.userId = o.userId /\ e.bookId = o.bookId /\ e.status = o.status

---------------------------------------------------------------------------
(* C1: every step that writes the order store appends one order, and is     *)
(* taken by a POST /commandes request that has called the Account Service   *)
(* and then the Catalog Service, in that order, both lookups having         *)
(* succeeded, for the userId and bookId of the order written; the Catalog   *)
(* Service is called only once the user lookup has succeeded.               *)
C1_PersistedAfterUserThenBook ==
  [][ /\ orders' # orders =>
           \E r \in Reqs :
             /\ IsPost(req[r]) /\ StepOf(r)
             /\ req[r].calls = <<"users", "livres">>
             /\ UserConfirmed(req[r]) /\ BookConfirmed(req[r])
             /\ Len(orders') = Len(orders) + 1
             /\ orders' = Append(orders, LastOrder(orders'))
             /\ LastOrder(orders').userId = req[r].userId
             /\ LastOrder(orders').bookId = req[r].bookId
      /\ \A r \in Reqs :
           IsPost(req'[r]) /\ Len(req'[r].calls) >= 2 =>
             /\ req'[r].calls = <<"users", "livres">>
             /\ UserConfirmed(req'[r])
    ]_vars

C1_Witness ==
  \E r \in Reqs :
    /\ IsPost(req[r]) /\ Answered(req[r])
    /\ Len(req[r].created) = 1
    /\ req[r].calls = <<"users", "livres">>
    /\ Len(orders) >= 1

(* C2: whenever an order is written, the user and the book it references    *)
(* are in the Account and Catalog stores at that instant.                   *)
C2_LiveAtWrite ==
  [][ orders' # orders =>
        /\ LastOrder(orders').userId \in 1..Len(users')
        /\ \E b \in books' : b.id = LastOrder(orders').bookId
    ]_vars

(* C3: a POST /commandes request whose user lookup did not succeed (404,    *)
(* no response, any other status) is answered without any call to the       *)
(* Catalog Service.                                                         *)
C3_NoBookCallAfterUserFailure ==
  \A r \in Reqs :
    IsPost(req[r]) /\ UserLookupDone(req[r]) /\ ~Is2xx(req[r].uResp[1]) =>
      /\ Answered(req[r])
      /\ req[r].calls = <<"users">>
      /\ req[r].bResp = <<>>

C3_Witness ==
  \E r \in Reqs :
    /\ IsPost(req[r]) /\ Answered(req[r])
    /\ req[r].uResp = <<NoResponse>>
    /\ req[r].calls = <<"users">>
    /\ books # {}

(* C4: the step that answers a POST /commandes whose user lookup was        *)
(* answered 404 answers 404 naming the user; the step that answers one      *)
(* whose user lookup succeeded and whose book lookup was answered 404       *)
(* answers 404 naming the book; no step of a request that is not answered   *)
(* 201 changes the order store.                                             *)
C4_NotFoundIs404AndWritesNothing ==
  [][ \A r \in Reqs :
        IsPost(req'[r]) /\ StepOf(r) =>
          /\ req'[r].status # 201 => orders' = orders
          /\ Answers(r) /\ UserLookupDone(req'[r]) /\ Is404(req'[r].uResp[1]) =>
               /\ req'[r].status = 404
               /\ req'[r].msg = MSG_USER_NOT_FOUND
               /\ req'[r].created = <<>>
          /\ Answers(r) /\ UserConfirmed(req'[r])
               /\ BookLookupDone(req'[r]) /\ Is404(req'[r].bResp[1]) =>
               /\ req'[r].status = 404
               /\ req'[r].msg = MSG_BOOK_NOT_FOUND
               /\ req'[r].created = <<>>
    ]_vars

C4_Witness ==
  \E r \in Reqs :
    /\ IsPost(req[r]) /\ Answered(req[r])
    /\ UserConfirmed(req[r])
    /\ BookLookupDone(req[r]) /\ Is404(req[r].bResp[1])
    /\ req[r].status = 404
    /\ bookSeq >= 1

(* C5: a POST /commandes whose user lookup or book lookup failed otherwise  *)
(* than by a 404 (no response, or a status that is neither 2xx nor 404; for *)
(* the book also a 2xx with a null body) is answered 500 with the text of   *)
(* that verification step, and never reaches the write: it is answered in   *)
(* the step that records the failure and has created nothing.               *)
C5_DependencyFailureIs500 ==
  \A r \in Reqs :
    IsPost(req[r]) =>
      /\ UserLookupDone(req[r]) /\ ~Is2xx(req[r].uResp[1]) /\ ~Is404(req[r].uResp[1]) =>
           /\ Answered(req[r]) /\ req[r].status = 500
           /\ req[r].msg = MSG_USER_CHECK
           /\ req[r].bResp = <<>> /\ req[r].created = <<>>
      /\ BookLookupDone(req[r]) /\ ~Is404(req[r].bResp[1])
           /\ (~Is2xx(req[r].bResp[1]) \/ req[r].bResp[1].data = NULL) =>
           /\ Answered(req[r]) /\ req[r].status = 500
           /\ req[r].msg = MSG_BOOK_CHECK
           /\ req[r].created = <<>>

C5_Witness ==
  \E r \in Reqs :
    /\ IsPost(req[r]) /\ Answered(req[r])
    /\ UserConfirmed(req[r])
    /\ req[r].bResp = <<NoResponse>>
    /\ req[r].status = 500

(* C6: a POST /commandes whose user lookup and book lookup were both        *)
(* answered with the row (2xx) is answered only by the step that writes     *)
(* the order: that step appends exactly one order to the store, and the     *)
(* answer is 201 with that order, whose userId and bookId are those of the  *)
(* request and whose status is 'En cours'.                                  *)
C6_ValidPairCreatesOrder ==
  [][ \A r \in Reqs :
        IsPost(req'[r]) /\ UserConfirmed(req'[r]) /\ BookConfirmed(req'[r])
          /\ req'[r].bResp[1].data # NULL =>
          /\ req'[r].pc \in {"create", "done"}
          /\ Answered(req'[r]) =>
               /\ req'[r].status = 201
               /\ Len(req'[r].created) = 1
               /\ req'[r].created[1].userId = req'[r].userId
               /\ req'[r].created[1].bookId = req'[r].bookId
               /\ req'[r].created[1].status = "En cours"
               /\ req'[r].created[1].id \in 1..Len(orders')
               /\ orders'[req'[r].created[1].id] = req'[r].created[1]
               /\ Answers(r) => orders' = Append(orders, req'[r].created[1])
    ]_vars

C6_Witness ==
  \E r \in Reqs :
    /\ IsPost(req[r]) /\ Answered(req[r])
    /\ req[r].status = 201
    /\ req[r].created = <<[id |-> 1, userId |-> 1, bookId |-> 1, status |-> "En cours"]>>
    /\ orders = req[r].created

(* C7: a POST /commandes whose userId or bookId is absent is answered 400   *)
(* in the step that receives it: it has called no peer, and the step        *)
(* leaves the order store unchanged.                                        *)
C7_MissingIdIs400 ==
  [][ \A r \in Reqs :
        IsPost(req'[r]) /\ StepOf(r)
          /\ (req'[r].userId = 0 \/ req'[r].bookId = 0) =>
          /\ Answered(req'[r])
          /\ req'[r].status = 400
          /\ req'[r].calls = <<>>
          /\ req'[r].uResp = <<>> /\ req'[r].bResp = <<>>
          /\ req'[r].created = <<>>
          /\ orders' = orders
    ]_vars

C7_Witness ==
  \E r \in Reqs :
    /\ IsPost(req[r]) /\ Answered(req[r])
    /\ req[r].userId # 0 /\ req[r].bookId = 0
    /\ req[r].status = 400
    /\ Len(users) >= 1

---------------------------------------------------------------------------
(* the requests that read orders *)

IsRead(rq) == rq.kind \in {"get", "list"}

\* the lookup did not deliver the display field: it was rejected (404, no
\* response, any status that is not 2xx), or its 2xx body is null or lacks the field
LookupFailed(resp, field) ==
  \/ resp = NULL
  \/ resp.data = NULL
  \/ field \notin DOMAIN resp.data

(* C8: in every answer of GET /commandes and GET /commandes/{id}, an        *)
(* element whose user lookup failed for any reason carries userName         *)
(* 'Utilisateur inconnu', and one whose book lookup failed for any reason   *)
(* carries bookTitle 'Livre inconnu'.                                       *)
C8_SentinelOnAnyFailure ==
  \A r \in Reqs :
    IsRead(req[r]) /\ Answered(req[r]) /\ req[r].status = 200 =>
      \A i \in 1..Len(req[r].out) :
        /\ LookupFailed(req[r].uResp[i], "name") =>
             req[r].out[i].userName = "Utilisateur inconnu"
        /\ LookupFailed(req[r].bResp[i], "title") =>
             req[r].out[i].bookTitle = "Livre inconnu"

(* C9: a GET /commandes/{id} that found its order is answered 200 with the  *)
(* stored row of that id, whatever the two lookups yielded; bookTitle is    *)
(* the title the Catalog Service returned whenever it returned one, also    *)
(* when the user lookup failed, and userName is the name the Account        *)
(* Service returned whenever it returned one, also when the book lookup     *)
(* failed.                                                                  *)
C9_GetByIdIndependentEnrichment ==
  \A r \in Reqs :
    req[r].kind = "get" /\ Len(req[r].found) = 1 /\ Answered(req[r]) =>
      /\ req[r].status = 200
      /\ Len(req[r].out) = 1
      /\ req[r].found[1].id = ParseInt(req[r].param)
      /\ req[r].found[1] = orders[req[r].found[1].id]
      /\ SameOrder(req[r].out[1], req[r].found[1])
      /\ ~LookupFailed(req[r].bResp[1], "title") =>
           req[r].out[1].bookTitle = req[r].bResp[1].data.title
      /\ ~LookupFailed(req[r].uResp[1], "name") =>
           req[r].out[1].userName = req[r].uResp[1].data.name

C9_Witness ==
  \E r \in Reqs :
    /\ req[r].kind = "get" /\ Answered(req[r])
    /\ req[r].status = 200
    /\ req[r].uResp = <<NULL>>
    /\ req[r].out[1].bookTitle = "Gatsby"
    /\ req[r].out[1].userName = "Utilisateur inconnu"

(* C10: GET /commandes reads every row of the order store, and is answered  *)
(* 200 with one element per row read, in the order of the rows, each with   *)
(* the id, userId, bookId and status of its row as stored, whatever the     *)
(* lookups yielded.                                                         *)
C10_ListAlwaysAnswers200 ==
  [][ \A r \in Reqs :
        req'[r].kind = "list" =>
          /\ StepOf(r) /\ req[r].pc \in {"idle", "done"} => req'[r].found = orders
          /\ Len(req'[r].found) <= Len(orders')
          /\ \A i \in 1..Len(req'[r].found) : req'[r].found[i] = orders'[i]
          /\ Answered(req'[r]) =>
               /\ req'[r].status = 200
               /\ Len(req'[r].out) = Len(req'[r].found)
               /\ \A i \in 1..Len(req'[r].out) :
                    SameOrder(req'[r].out[i], req'[r].found[i])
    ]_vars

C10_Witness ==
  \E r \in Reqs :
    /\ req[r].kind = "list" /\ Answered(req[r])
    /\ req[r].status = 200
    /\ Len(req[r].out) = Len(orders) /\ Len(orders) >= 1
    /\ \A i \in 1..Len(req[r].out) :
         req[r].uResp[i] = NULL /\ req[r].bResp[i] = NULL

---------------------------------------------------------------------------
(* the requests served by the catalog *)

\* the step serves a catalog request
CatStep == cat' # cat

\* the book lookup of request r, in flight before the step, settles in it
BookLookupSettles(r) ==
  /\ req[r].pc = "enrich" /\ req'[r].kind = req[r].kind
  /\ req[r].bResp[1] = PENDING /\ req'[r].bResp[1] # PENDING

(* C11: a DELETE /livres/{id} of a stored book is answered 204 and removes   *)
(* the book whether or not an order references it, and leaves the order     *)
(* store as it is; a GET /commandes/{id} whose book lookup settles while    *)
(* the book of its order is not in the catalog is answered 200 with         *)
(* bookTitle 'Livre inconnu' and the id, userId, bookId and status of the   *)
(* stored order.                                                            *)
C11_DanglingBookTolerated ==
  [][ /\ CatStep /\ cat'.op = "delete" /\ BookExists(cat'.id) =>
           /\ cat'.status = 204
           /\ ~\E b \in books' : b.id = cat'.id
           /\ orders' = orders
      /\ \A r \in Reqs :
           req'[r].kind = "get" /\ Len(req'[r].found) = 1 =>
             /\ BookLookupSettles(r) /\ ~BookExists(req[r].found[1].bookId) =>
                  req'[r].bResp[1] = NULL
             /\ Answered(req'[r]) /\ req'[r].bResp[1] = NULL =>
                  /\ req'[r].status = 200
                  /\ req'[r].out[1].bookTitle = "Livre inconnu"
                  /\ SameOrder(req'[r].out[1], orders'[ParseInt(req'[r].param)])
    ]_vars

C11_Witness ==
  \E r \in Reqs :
    /\ req[r].kind = "get" /\ Answered(req[r]) /\ req[r].status = 200
    /\ Len(orders) >= 1
    /\ cat.op = "delete" /\ cat.status = 204 /\ cat.id = orders[1].bookId
    /\ req[r].out[1].id = 1
    /\ req[r].out[1].bookTitle = "Livre inconnu"
    /\ req[r].out[1].userName = "Alice"

---------------------------------------------------------------------------
(* two answered GET /commandes *)

BothListed(p, q) ==
  /\ p # q
  /\ req[p].kind = "list" /\ Answered(req[p]) /\ req[p].status = 200
  /\ req[q].kind = "list" /\ Answered(req[q]) /\ req[q].status = 200

---------------------------------------------------------------------------
(* C13: in every answer of GET /commandes, each element carries the id,     *)
(* userId, bookId and status of the row at its position, its userName is    *)
(* the name of the user of its own userId or 'Utilisateur inconnu', and its *)
(* bookTitle is the title of the book of its own bookId or 'Livre inconnu', *)
(* in whatever order the lookups of the orders settle; an answer filed for  *)
(* an element is the answer to the lookup of that element's own id.         *)
C13_NoMixingAcrossOrders ==
  \A r \in Reqs :
    req[r].kind = "list" =>
      /\ \A i \in 1..Len(req[r].found) :
           /\ req[r].uResp[i] \notin {PENDING, NULL} =>
                req[r].uResp[i].data.id = req[r].found[i].userId
           /\ req[r].bResp[i] \notin {PENDING, NULL} =>
                req[r].bResp[i].data.id = req[r].found[i].bookId
      /\ Answered(req[r]) =>
           \A i \in 1..Len(req[r].out) :
             /\ SameOrder(req[r].out[i], orders[i])
             /\ req[r].out[i].userName \in
                  {users[req[r].out[i].userId].name, "Utilisateur inconnu"}
             /\ req[r].out[i].bookTitle \in
                  {BookRow(req[r].out[i].bookId).title, "Livre inconnu"}

C13_Witness ==
  \E r \in Reqs :
    /\ req[r].kind = "list" /\ Answered(req[r])
    /\ Len(req[r].out) >= 2
    /\ req[r].out[1].userId # req[r].out[2].userId
    /\ req[r].out[1].bookId # req[r].out[2].bookId
    /\ req[r].out[1].userName = "Bob" /\ req[r].out[1].bookTitle = "Gatsby"
    /\ req[r].out[2].userName = "Alice" /\ req[r].out[2].bookTitle = "Dune"

---------------------------------------------------------------------------
\* the parameter is a number written in digits
Numeric(param) == param # <<>> /\ \A i \in 1..Len(param) : param[i] \in DigitChars

\* request r is received in the step
Received(r) == req[r].pc \in {"idle", "done"} /\ StepOf(r)

(* C14: a GET /commandes/{id} whose id is not numeric is answered 400 in    *)
(* the step that receives it, with no order read and no peer called; one    *)
(* whose id is numeric and names no stored order is answered 404 in that    *)
(* step, with no peer called; any other is answered 200 when it is          *)
(* answered.                                                                *)
C14_GetByIdStatus ==
  [][ \A r \in Reqs :
        req'[r].kind = "get" =>
          /\ Received(r) /\ ~Numeric(req'[r].param) =>
               /\ Answered(req'[r]) /\ req'[r].status = 400
               /\ req'[r].found = <<>> /\ req'[r].calls = <<>>
          /\ Received(r) /\ Numeric(req'[r].param)
               /\ ParseInt(req'[r].param) \notin 1..Len(orders) =>
               /\ Answered(req'[r]) /\ req'[r].status = 404
               /\ req'[r].calls = <<>>
          /\ Numeric(req'[r].param) /\ req'[r].found # <<>> /\ Answered(req'[r]) =>
               req'[r].status = 200
    ]_vars

(* C15: every request of the Order Service that has issued a call to a peer *)
(* and waits for it is eventually answered, whatever the peers do.          *)
C15_EveryCallerIsAnswered ==
  \A r \in Reqs :
    (req[r].pc \in {"awaitUser", "awaitBook", "enrich"}) ~> (req[r].pc = "done")

---------------------------------------------------------------------------
(* the requests served by the account service *)

IsRegister(rq) == rq.kind = "register"
IsLogin(rq) == rq.kind = "login"
AcctAnswered(rq) == rq.pc = "done"
\* the step is taken by request a of the account service
AcctStepOf(a) == acct'[a] # acct[a]
\* some stored user has this email
Registered(email) == \E i \in 1..Len(users) : users[i].email = email

UniqueEmails ==
  \A i, j \in 1..Len(users) : i # j => users[i].email # users[j].email

(* C16: no two stored users have the same email; the step in which          *)
(* User.create settles for an email that is already stored answers 409 and  *)
(* leaves the users as they are; a registration is answered 201 only by the *)
(* step that adds its user, whose email was not stored before; and of two   *)
(* registrations of one email that are both answered, at most one is        *)
(* answered 201.                                                            *)
C16_UniqueEmail ==
  /\ []UniqueEmails
  /\ [][ \A a \in AcctReqs :
           /\ AcctStepOf(a) /\ IsRegister(acct[a]) /\ acct[a].pc = "create"
                /\ Registered(acct[a].email) =>
                /\ acct'[a].status = 409
                /\ users' = users
           /\ AcctStepOf(a) /\ IsRegister(acct'[a]) /\ acct'[a].status = 201 =>
                /\ ~Registered(acct'[a].email)
                /\ Len(users') = Len(users) + 1
                /\ users'[Len(users')].email = acct'[a].email
           /\ \A b \in AcctReqs \ {a} :
                IsRegister(acct'[a]) /\ IsRegister(acct'[b])
                  /\ AcctAnswered(acct'[a]) /\ AcctAnswered(acct'[b])
                  /\ acct'[a].email = acct'[b].email =>
                  ~(acct'[a].status = 201 /\ acct'[b].status = 201)
       ]_vars

C16_Witness ==
  \E a, b \in AcctReqs :
    /\ IsRegister(acct[a]) /\ acct[a].status = 201
    /\ IsRegister(acct[b]) /\ acct[b].status = 409
    /\ acct[a].email = acct[b].email
    /\ Len(users) = 2

---------------------------------------------------------------------------
\* what the client of an answered request receives
Response(rq) == [status |-> rq.status, msg |-> rq.msg, out |-> rq.out]

\* a login that gave both fields and named an email that was not stored
UnknownEmailLogin(rq) ==
  /\ IsLogin(rq) /\ AcctAnswered(rq)
  /\ ~Blank(rq.email) /\ ~Blank(rq.password)
  /\ rq.row = <<>>

\* a login that named a stored email and gave another password than the one
\* the account was registered with
WrongPasswordLogin(rq) ==
  /\ IsLogin(rq) /\ AcctAnswered(rq)
  /\ ~Blank(rq.password)
  /\ rq.row # <<>>
  /\ \A salt \in Salts : rq.row[1].password # Hash(rq.password, salt)

(* C17: a POST /login that names an email that is not registered and a POST *)
(* /login that names a registered email with a wrong password receive the   *)
(* same response: status 401 and the same body.                             *)
C17_LoginFailuresIndistinguishable ==
  \A a, b \in AcctReqs :
    UnknownEmailLogin(acct[a]) /\ WrongPasswordLogin(acct[b]) =>
      /\ acct[a].status = 401 /\ acct[b].status = 401
      /\ Response(acct[a]) = Response(acct[b])

C17_Witness ==
  \E a, b \in AcctReqs :
    /\ UnknownEmailLogin(acct[a]) /\ WrongPasswordLogin(acct[b])
    /\ acct[a].email = "bob@x.io" /\ acct[b].email = "alice@x.io"
    /\ Len(users) = 1

\* the password a stored digest was computed from
Digests(password) == {Hash(password, salt) : salt \in Salts}

(* C18: the body of every 2xx answer of POST /register, POST /login and GET *)
(* /users/{id} is without a password field (for POST /login, so is the user *)
(* record in it); every stored password is a bcrypt digest and no           *)
(* plaintext; and the row a registration adds holds a digest of the         *)
(* password that registration submitted.                                    *)
C18_NoPasswordDisclosed ==
  /\ [](\A a \in AcctReqs :
          AcctAnswered(acct[a]) /\ acct[a].status \in 200..299 =>
            /\ Len(acct[a].out) = 1
            /\ "password" \notin DOMAIN acct[a].out[1]
            /\ IsLogin(acct[a]) => "password" \notin DOMAIN acct[a].out[1].user)
  /\ [](\A i \in 1..Len(users) :
          /\ users[i].password \notin Passwords
          /\ \E p \in Passwords : users[i].password \in Digests(p))
  /\ [][ \A a \in AcctReqs :
           AcctStepOf(a) /\ IsRegister(acct'[a]) /\ acct'[a].status = 201 =>
             /\ users'[Len(users')].password \in Digests(acct'[a].password)
             /\ users'[Len(users')].password # acct'[a].password
       ]_vars

C18_Witness ==
  \E a, b \in AcctReqs :
    /\ IsLogin(acct[a]) /\ acct[a].status = 200
    /\ acct[a].out[1].user = [id |-> 1, email |-> "alice@x.io", name |-> "Alice"]
    /\ acct[b].kind = "get" /\ acct[b].status = 200
    /\ acct[b].out[1] = [id |-> 1, email |-> "alice@x.io", name |-> "Alice"]
    /\ users[1].password = Hash("pw2", "s1")

(* C19: once a POST /register has been answered 201, a POST /login received *)
(* with the same email is never refused for its email; it is answered 200   *)
(* with the record that registration returned (same id, email and name)     *)
(* when its password is the registered one and 401 when it is any other.    *)
C19_RegisterThenLogin ==
  [][ \A a, b \in AcctReqs :
        /\ a # b
        /\ IsRegister(acct[a]) /\ acct[a].status = 201 /\ acct'[a] = acct[a]
        /\ AcctStepOf(b) /\ IsLogin(acct'[b])
        /\ acct'[b].email = acct[a].email /\ ~Blank(acct'[b].password)
        =>
        /\ acct'[b].row # <<>>
        /\ AcctAnswered(acct'[b]) =>
             IF acct'[b].password = acct[a].password
               THEN /\ acct'[b].status = 200
                    /\ acct'[b].out[1].user = acct[a].out[1]
               ELSE /\ acct'[b].status = 401
                    /\ acct'[b].out = <<>>
    ]_vars

C19_Witness ==
  \E a, b \in AcctReqs :
    /\ IsRegister(acct[a]) /\ acct[a].status = 201
    /\ IsLogin(acct[b]) /\ acct[b].status = 200
    /\ acct[b].email = acct[a].email /\ acct[b].password = acct[a].password
    /\ acct[b].out[1].user = acct[a].out[1]
    /\ acct[a].out[1].id = 2

---------------------------------------------------------------------------
\* the body lacks a field POST /livres requires
LacksRequired(body) == Blank(Text(body, "title")) \/ Blank(Text(body, "author"))

\* the step serves a PUT or a DELETE on book id
WritesBook(id) == CatStep /\ cat'.op \in {"put", "delete"} /\ cat'.id = id

(* C20: a POST /livres with a title and an author is answered 201 with a    *)
(* book of a new id whose title, author and year are those of the body      *)
(* (year null when the body has none), and that book is stored; every       *)
(* stored book stays as it is through every step that is not a PUT or a     *)
(* DELETE on its id; a GET /livres/{id} of a stored book is answered 200    *)
(* with the book as stored.  A POST /livres without title or without author *)
(* is answered 400 and leaves the books as they are.                        *)
C20_BookRoundTrip ==
  [][ /\ CatStep /\ cat'.op = "post" /\ ~LacksRequired(cat'.body[1]) =>
           /\ cat'.status = 201
           /\ cat'.out[1].title = cat'.body[1].title
           /\ cat'.out[1].author = cat'.body[1].author
           /\ cat'.out[1].year = Column(cat'.body[1], "year")
           /\ ~BookExists(cat'.out[1].id) /\ cat'.out[1].id > bookSeq
           /\ books' = books \cup {cat'.out[1]}
      /\ CatStep /\ cat'.op = "post" /\ LacksRequired(cat'.body[1]) =>
           /\ cat'.status = 400 /\ cat'.out = <<>>
           /\ books' = books /\ bookSeq' = bookSeq
      /\ \A b \in books : ~WritesBook(b.id) => b \in books'
      /\ CatStep /\ cat'.op = "get" /\ BookExists(cat'.id) =>
           /\ cat'.status = 200
           /\ cat'.out = <<BookRow(cat'.id)>>
    ]_vars

C20_Witness ==
  /\ cat.op = "get" /\ cat.status = 200
  /\ cat.out = <<[id |-> 1, title |-> "Gatsby", author |-> "Fitzgerald", year |-> <<1925>>]>>

---------------------------------------------------------------------------
\* the body of a PUT /livres/:id supplies the field: a text that is not
\* blank for title and author (part_001 300-301 test the text for truth),
\* the key itself for year (part_001 302 tests for undefined)
Supplies(body, key) ==
  IF key = "year" THEN "year" \in DOMAIN body ELSE ~Blank(Text(body, key))

\* the step serves a PUT on a book that is stored
PutOnStored == CatStep /\ cat'.op = "put" /\ BookExists(cat'.id)

(* C21: a PUT /livres/{id} on a stored book whose body supplies at least    *)
(* one of title, author and year is answered 200; afterwards the book has   *)
(* the value of the body in every field the body supplies and its former    *)
(* value in every other field, keeps its id, and every other book is as it  *)
(* was (no book added, none removed); the answer is the book as stored.  A  *)
(* PUT on a stored book whose body supplies none of the three is answered   *)
(* 400 and changes no book.                                                 *)
C21_PutChangesSuppliedFieldsOnly ==
  [][ PutOnStored =>
        LET id == cat'.id
            body == cat'.body[1]
            old == BookRow(id)
            new == CHOOSE b \in books' : b.id = id
        IN IF \E key \in {"title", "author", "year"} : Supplies(body, key)
             THEN /\ cat'.status = 200
                  /\ \E b \in books' : b.id = id
                  /\ new.title = IF Supplies(body, "title") THEN body.title ELSE old.title
                  /\ new.author = IF Supplies(body, "author") THEN body.author ELSE old.author
                  /\ new.year = IF Supplies(body, "year") THEN body.year ELSE old.year
                  /\ books' \ {new} = books \ {old}
                  /\ bookSeq' = bookSeq
                  /\ cat'.out = <<new>>
             ELSE /\ cat'.status = 400 /\ cat'.out = <<>>
                  /\ books' = books /\ bookSeq' = bookSeq
    ]_vars

\* a PUT with only a year was answered 200 on book 1 while book 2 is stored:
\* book 1 has the new year and its first title and author
C21_Witness ==
  /\ cat.op = "put" /\ cat.status = 200 /\ cat.id = 1
  /\ cat.body = <<[year |-> <<1817>>]>>
  /\ [id |-> 1, title |-> "Gatsby", author |-> "Fitzgerald", year |-> <<1817>>] \in books
  /\ BookExists(2)

---------------------------------------------------------------------------
\* the step serves a GET, a PUT or a DELETE on an id that has no stored book
OnAbsentBook ==
  CatStep /\ cat'.op \in {"get", "put", "delete"} /\ ~BookExists(cat'.id)

\* the ids the catalog has given out so far
IssuedIds == 1..bookSeq

(* C22: a GET, a PUT or a DELETE /livres/{id} on an id that has no stored   *)
(* book is answered 404 and leaves the books and the id counter as they     *)
(* are; when a DELETE /livres/{id} is answered 204 the book of that id is   *)
(* no longer stored; an id that was given out and has no stored book never  *)
(* has one again, so every later GET, PUT or DELETE on it is answered 404.  *)
C22_AbsentBookIs404 ==
  [][ /\ OnAbsentBook =>
           /\ cat'.status = 404 /\ cat'.out = <<>>
           /\ books' = books /\ bookSeq' = bookSeq
      /\ CatStep /\ cat'.op = "delete" /\ cat'.status = 204 =>
           /\ BookExists(cat'.id)
           /\ books' = books \ {BookRow(cat'.id)}
           /\ \A b \in books' : b.id # cat'.id
      /\ \A id \in IssuedIds : ~BookExists(id) => \A b \in books' : b.id # id
    ]_vars

\* book 1 was deleted, book 2 is stored, and a PUT on id 1 was answered 404
C22_Witness ==
  /\ bookSeq = 2 /\ ~BookExists(1) /\ BookExists(2)
  /\ cat.op = "put" /\ cat.id = 1 /\ cat.status = 404

---------------------------------------------------------------------------
\* the order stored at position i is the same row before and after the step
OrderKept(i) == i <= Len(orders') /\ orders'[i] = orders[i]

(* C23: an order that is stored stays stored, with the same id, userId,     *)
(* bookId and status, through every step of every operation of the three    *)
(* services; every stored order has the status 'En cours', whatever status  *)
(* the body of its POST /commandes supplied, and its id is its position in  *)
(* the store.                                                               *)
C23_OrdersNeverChange ==
  /\ [](\A i \in 1..Len(orders) : orders[i].id = i /\ orders[i].status = EN_COURS)
  /\ [][\A i \in 1..Len(orders) : OrderKept(i)]_vars

\* an order whose POST supplied a status is stored; since then its book was
\* deleted and a login was answered
C23_Witness ==
  /\ Len(orders) >= 1
  /\ \E r \in Reqs :
       /\ req[r].kind = "post" /\ req[r].status = 201
       /\ "status" \in DOMAIN req[r].body[1]
       /\ req[r].body[1].status = CLIENT_STATUS
       /\ req[r].created[1] \in {orders[i] : i \in 1..Len(orders)}
       /\ ~BookExists(req[r].created[1].bookId)
  /\ cat.op = "delete" /\ cat.status = 204
  /\ \E a \in AcctReqs : acct[a].kind = "login" /\ acct[a].status = 200

---------------------------------------------------------------------------
\* the request has persisted an order
Persisted(rq) == rq.created # <<>>

\* the answer rejects the request: 400, 404 or a dependency error
IsRejection(rq) ==
  \/ rq.status \in {400, 404}
  \/ rq.status = 500 /\ rq.msg \in {MSG_USER_CHECK, MSG_BOOK_CHECK}

\* request r writes the order that the step appends to the store
Persists(r) ==
  /\ IsPost(req[r]) /\ req[r].pc = "create"
  /\ ~Persisted(req[r]) /\ req[r].sent = 0
  /\ req'[r].pc = "done" /\ req'[r].status = 201
  /\ req'[r].created = <<orders'[Len(orders')]>>

(* C24: a POST /commandes request has sent no response while it is being    *)
(* handled and exactly one once it is finished, never two; it has persisted *)
(* at most one order, and one only if its answer is 201; a request answered *)
(* with a rejection (400, 404 or a dependency error) has persisted none.    *)
(* Every step that adds to the order store adds one order, written by one   *)
(* request that had verified its book, had persisted nothing and had sent   *)
(* nothing, and that answers 201 in that step; a step in which a request    *)
(* sends a rejection leaves the order store as it is.                       *)
C24_OneResponseRejectBeforePersist ==
  /\ [](\A r \in Reqs : IsPost(req[r]) =>
          /\ req[r].sent = (IF Answered(req[r]) THEN 1 ELSE 0)
          /\ Len(req[r].created) <= 1
          /\ Persisted(req[r]) => Answered(req[r]) /\ req[r].status = 201
          /\ Answered(req[r]) /\ IsRejection(req[r]) => ~Persisted(req[r]))
  /\ [][ /\ orders' # orders =>
              /\ Len(orders') = Len(orders) + 1
              /\ \E r \in Reqs : Persists(r) /\ \A q \in Reqs \ {r} : req'[q] = req[q]
         /\ \A r \in Reqs :
              req'[r] # req[r] /\ IsPost(req'[r]) /\ Answered(req'[r])
                /\ IsRejection(req'[r]) => orders' = orders
     ]_vars

\* a request whose user was verified and whose book lookup failed without a
\* 404 is answered with one response, a dependency error, and no order is stored
C24_Witness ==
  \E r \in Reqs :
    /\ IsPost(req[r]) /\ Answered(req[r]) /\ req[r].sent = 1
    /\ req[r].status = 500 /\ req[r].msg = MSG_BOOK_CHECK
    /\ UserLookupDone(req[r]) /\ ~Persisted(req[r])
    /\ orders = <<>>

---------------------------------------------------------------------------
\* the stored state of each service
OrderStore == orders
AccountStore == users
CatalogStore == <<books, bookSeq>>

\* the step is one in which the store of the order service, of the account
\* service, of the catalog rejects the operation of a handler
OrderStoreFails == \E r \in Reqs : req'[r] # req[r] /\ req'[r].failed
AccountStoreFails == \E a \in AcctReqs : acct'[a] # acct[a] /\ acct'[a].failed
CatalogStoreFails == cat' # cat /\ cat'.failed

(* C25: a request whose handler had its call to the local store rejected is *)
(* answered 500, with no row in the answer and no order created, in each of *)
(* the three services (POST /commandes, GET /commandes, GET /commandes/{id}; *)
(* register, login, GET /users/{id}; GET, POST, PUT, DELETE /livres and     *)
(* GET /livres/{id}); the step in which the store rejects the call leaves   *)
(* the stored state of that service as it was.                              *)
C25_StoreFailureIs500 ==
  /\ [](/\ \A r \in Reqs : req[r].failed =>
             /\ Answered(req[r]) /\ req[r].status = 500
             /\ req[r].created = <<>> /\ req[r].out = <<>>
        /\ \A a \in AcctReqs : acct[a].failed =>
             /\ AcctAnswered(acct[a]) /\ acct[a].status = 500
             /\ acct[a].out = <<>>
        /\ cat.failed => (cat.status = 500 /\ cat.out = <<>>))
  /\ [][ /\ OrderStoreFails => OrderStore' = OrderStore
         /\ AccountStoreFails => AccountStore' = AccountStore
         /\ CatalogStoreFails => CatalogStore' = CatalogStore
     ]_vars

\* with a user, a book and no order stored, the insert of POST /commandes,
\* the insert of POST /register and the read of GET /livres were rejected
C25_Witness ==
  /\ Len(users) = 1 /\ BookExists(1) /\ orders = <<>>
  /\ \E r \in Reqs : IsPost(req[r]) /\ req[r].failed /\ req[r].msg = MSG_DB
  /\ \E a \in AcctReqs : IsRegister(acct[a]) /\ acct[a].failed
  /\ cat.op = "list" /\ cat.failed /\ cat.status = 500

---------------------------------------------------------------------------
\* the user row of index k is the same row before and after the step
UserKept(k) == k <= Len(users') /\ users'[k] = users[k]

(* C26: the userId of every stored order is the id of a user stored in the  *)
(* account service, in every reachable state; no step of any operation of   *)
(* the three services removes or changes a stored user.  (The bookId of a   *)
(* stored order may be the id of a book that is no longer stored.)          *)
C26_UserReferenceNeverDangles ==
  /\ [](\A i \in 1..Len(orders) : UserExists(orders[i].userId))
  /\ [][\A k \in 1..Len(users) : UserKept(k)]_vars

\* an order is stored whose book has been deleted; a GET /users/{id} for the
\* order's user, asked after the deletion, was answered 200
C26_Witness ==
  /\ Len(orders) >= 1
  /\ ~BookExists(orders[1].bookId)
  /\ UserExists(orders[1].userId)
  /\ \E a \in AcctReqs :
       /\ acct[a].kind = "get" /\ acct[a].id = orders[1].userId
       /\ acct[a].status = 200 /\ acct[a].out[1].id = orders[1].userId

====
